---- MODULE Spec2Model ----
(***************************************************************************)
(* Model of the YouTube view statistics dashboard (src/main.py).           *)
(*                                                                         *)
(* Two specifications share the module:                                    *)
(*   Spec     one WorkerThread.run from start to thread end: channel       *)
(*            resolution, playlist pagination (get_all_video_ids,          *)
(*            get_last_n_video_ids), batched statistics lookup             *)
(*            (get_videos_statistics) and the finished signal.             *)
(*   FairSpec Spec with weak fairness of the worker's steps (the remote    *)
(*            API answers every request).                                  *)
(*   AppSpec  the GUI object YouTubeViewStatsApp: Analyze clicks, worker   *)
(*            threads and their queued finished signals, export and        *)
(*            closeEvent.                                                  *)
(*                                                                         *)
(* Video IDs are the positions 1..playlistSize of the uploads playlist in  *)
(* the API's order.  A continuation token is the offset of the next item;  *)
(* offset 0 stands for None (no token).                                    *)
(***************************************************************************)
EXTENDS Integers, Sequences, FiniteSets, TLC

\* ---------------------------------------------------------------- bounds
MaxVideos == 101      \* largest uploads playlist considered
MaxN == 52            \* largest requested count in last-N mode
MaxAnalyses == 2      \* Analyze invocations accepted in one session
MaxRecords == 30      \* largest video_stats list given to the series builder
MaxTie == 2           \* largest group of records sharing one upload date
MaxStep == 3          \* largest step of the view counts along the list

\* ------------------------------------------------------ program constants
PageSize == 50        \* maxResults=50 / min(n - len(video_ids), 50)
BatchSize == 50       \* range(0, len(video_ids), 50)
PageRetries == 3      \* retries = 3 in both pagination functions
BatchRetries == 3     \* retries = 3 in the statistics retry loop
ALL == 0              \* n_videos = "all"
None == 0             \* next_page_token = None, latest_df = None
WindowDivisor == 10   \* window_size = max(1, len(df) // 10)

VARIABLES
    \* ---- environment of one worker
    playlistSize,       \* number of videos in the uploads playlist
    \* ---- WorkerThread and the locals of the functions it calls
    n_videos,           \* WorkerThread.n_videos: ALL or N >= 1
    pc,                 \* position of WorkerThread.run
    video_ids,          \* video_ids of the collection, then of run
    next_page_token,    \* next_page_token of the collection
    retries,            \* retries of the collection
    i,                  \* loop variable of get_videos_statistics
    statistics,         \* statistics of get_videos_statistics
    batch_retries,      \* retries of the statistics retry loop
    result,             \* payload of the finished signal
    \* ---- observation of the worker's requests
    lastReq,            \* last playlistItems request and its outcome
    pageAttempts,       \* requests issued with the current page token
    pageRequests,       \* playlistItems requests issued by the call
    batchAttempts,      \* requests issued for the current batch
    batchOutcome,       \* outcome of every batch handled so far
    emitCount,          \* number of finished signals emitted
    \* ---- YouTubeViewStatsApp
    threads,            \* state of every WorkerThread created
    outcome,            \* what each WorkerThread emitted
    worker_threads,     \* self.worker_threads
    latest_df,          \* self.latest_df (run whose table it is)
    latest_channel_title, \* self.latest_channel_title (run whose title)
    latest_n_videos,    \* self.latest_n_videos (run and combo text)
    scroll_layout,      \* chart views in self.scroll_layout
    export_enabled,     \* self.export_button.isEnabled()
    messageBox,         \* last QMessageBox shown
    lastExport,         \* last workbook written by export_to_excel
    eventQueue,         \* finished signals queued for the GUI thread
    before,             \* results as they were when each Analyze began
    gui,                \* GUI thread: "idle", "closing", "closed"
    closeIdx,           \* position of closeEvent's loop
    \* ---- series built by handle_worker_finished
    video_stats,        \* data['video_stats'] handed to the handler
    df,                 \* the DataFrame after sort and moving average
    rebuilt,            \* the DataFrame built again from the rows of df
    sphase              \* "idle", "stats", "built", "rebuilt"

wvars == <<playlistSize, n_videos, pc, video_ids, next_page_token, retries,
           i, statistics, batch_retries, result, lastReq, pageAttempts,
           pageRequests, batchAttempts, batchOutcome, emitCount>>
avars == <<threads, outcome, worker_threads, latest_df, latest_channel_title,
           latest_n_videos, scroll_layout, export_enabled, messageBox,
           lastExport, eventQueue, before, gui, closeIdx>>
svars == <<video_stats, df, rebuilt, sphase>>
vars == <<wvars, avars, svars>>

Min(a, b) == IF a < b THEN a ELSE b

\* ------------------------------------------------------------ remote API
\* playlistItems().list(maxResults, pageToken): the items of one page.  The
\* response always carries the 'items' key (possibly an empty list), so the
\* "'items' not in response" exit of the loops is never taken.
PlaylistItems(token, maxResults) ==
    [k \in 1..(Min(token + maxResults, playlistSize) - token) |-> token + k]

\* response.get('nextPageToken'): absent on the last page
NextPageToken(token, maxResults) ==
    IF token + maxResults < playlistSize THEN token + maxResults ELSE None

\* videos().list(id=','.join(batch_ids)): one record per requested ID, in
\* request order; a record is identified by its video ID
VideoItems(batch_ids) == batch_ids

\* ------------------------------------------------------------ pagination
\* maxResults of the page request
MaxResults(n, len) == IF n = ALL THEN PageSize ELSE Min(n - len, PageSize)

\* variant of AppendItems: the break fires one item early
RECURSIVE AppendItems_BreakEarly(_, _, _)
AppendItems_BreakEarly(ids, items, n) ==
    IF items = <<>> THEN ids
    ELSE LET ids1 == Append(ids, Head(items))
         IN IF n # ALL /\ Len(ids1) = n - 1 THEN ids1
            ELSE AppendItems_BreakEarly(ids1, Tail(items), n)

\* for item in response['items']: append, break when len(video_ids) == n
RECURSIVE AppendItems(_, _, _)
AppendItems(ids, items, n) ==
    IF items = <<>> THEN ids
    ELSE LET ids1 == Append(ids, Head(items))
         IN IF n # ALL /\ Len(ids1) = n THEN ids1
            ELSE AppendItems(ids1, Tail(items), n)

\* the loop ends after a page: no token, or the while condition fails
CollectionDone(n, ids, token) == token = None \/ (n # ALL /\ ~(Len(ids) < n))

NoResult == [kind |-> "none", reason |-> "", stage |-> "", video_stats |-> <<>>]
ErrorResult(reason, stage) ==
    [kind |-> "error", reason |-> reason, stage |-> stage, video_stats |-> <<>>]
DataResult(stats) ==
    [kind |-> "data", reason |-> "", stage |-> "", video_stats |-> stats]

NoReq == [token |-> None, maxResults |-> 0, outcome |-> "none", ids |-> <<>>]

\* ----------------------------------------------------- app initial values
\* the results an analysis leaves behind, as the user sees them
Results ==
    [df |-> latest_df, title |-> latest_channel_title, n |-> latest_n_videos,
     charts |-> scroll_layout, export |-> export_enabled]

NoResults ==
    [df |-> None, title |-> None, n |-> [run |-> None, text |-> ""],
     charts |-> <<>>, export |-> FALSE]

AppIdle ==
    /\ threads = [w \in 1..MaxAnalyses |-> "new"]
    /\ outcome = [w \in 1..MaxAnalyses |-> "none"]
    /\ worker_threads = <<>>
    /\ latest_df = None
    /\ latest_channel_title = None
    /\ latest_n_videos = [run |-> None, text |-> ""]
    /\ scroll_layout = <<>>
    /\ export_enabled = FALSE
    /\ messageBox = "none"
    /\ lastExport = [df |-> None, title |-> None, n |-> ""]
    /\ eventQueue = <<>>
    /\ before = [w \in 1..MaxAnalyses |-> NoResults]
    /\ gui = "idle"
    /\ closeIdx = 0

WorkerFresh ==
    /\ pc = "extract"
    /\ video_ids = <<>>
    /\ next_page_token = None
    /\ retries = PageRetries
    /\ i = 0
    /\ statistics = <<>>
    /\ batch_retries = 0
    /\ result = NoResult
    /\ lastReq = NoReq
    /\ pageAttempts = 0
    /\ pageRequests = 0
    /\ batchAttempts = 0
    /\ batchOutcome = <<>>
    /\ emitCount = 0

\* no finished signal with data has been handled
SeriesIdle ==
    /\ video_stats = <<>>
    /\ df = <<>>
    /\ rebuilt = <<>>
    /\ sphase = "idle"

\* a started WorkerThread(youtube, channel_url, n_videos)
Init ==
    /\ playlistSize \in 0..MaxVideos
    /\ n_videos \in {ALL} \cup 1..MaxN
    /\ WorkerFresh
    /\ AppIdle
    /\ SeriesIdle

\* self.finished.emit(...): the one place run hands over its result
Emit(r) ==
    /\ result' = r
    /\ emitCount' = emitCount + 1
    /\ pc' = "emitted"

\* ------------------------------------------------------ WorkerThread.run
\* extract_channel_id returned a channel ID
ExtractChannelIdOk ==
    /\ pc = "extract"
    /\ pc' = "uploads"
    /\ UNCHANGED <<playlistSize, n_videos, video_ids, next_page_token, retries,
                   i, statistics, batch_retries, result, lastReq, pageAttempts,
                   pageRequests, batchAttempts, batchOutcome, emitCount, avars, svars>>

\* extract_channel_id raised (invalid URL, channel not found, remote error)
ExtractChannelIdError ==
    /\ pc = "extract"
    /\ Emit(ErrorResult("other", "extract"))
    /\ UNCHANGED <<playlistSize, n_videos, video_ids, next_page_token, retries,
                   i, statistics, batch_retries, lastReq, pageAttempts,
                   pageRequests, batchAttempts, batchOutcome, avars, svars>>

\* get_uploads_playlist_id returned (uploads_playlist_id, channel_title)
GetUploadsPlaylistIdOk ==
    /\ pc = "uploads"
    /\ pc' = "collect"
    /\ video_ids' = <<>>
    /\ next_page_token' = None
    /\ retries' = PageRetries
    /\ UNCHANGED <<playlistSize, n_videos, i, statistics, batch_retries, result,
                   lastReq, pageAttempts, pageRequests, batchAttempts,
                   batchOutcome, emitCount, avars, svars>>

\* get_uploads_playlist_id raised
GetUploadsPlaylistIdError ==
    /\ pc = "uploads"
    /\ Emit(ErrorResult("other", "uploads"))
    /\ UNCHANGED <<playlistSize, n_videos, video_ids, next_page_token, retries,
                   i, statistics, batch_retries, lastReq, pageAttempts,
                   pageRequests, batchAttempts, batchOutcome, avars, svars>>

\* the request of one loop iteration, with its outcome
Request(out) ==
    [token |-> next_page_token,
     maxResults |-> MaxResults(n_videos, Len(video_ids)),
     outcome |-> out, ids |-> video_ids]

Observe(out) ==
    /\ lastReq' = Request(out)
    /\ pageRequests' = pageRequests + 1
    /\ pageAttempts' = IF lastReq.outcome # "none" /\ lastReq.token = next_page_token
                         /\ lastReq.outcome # "ok"
                       THEN pageAttempts + 1 ELSE 1

\* variant of CollectPageOk: a page that succeeds restores the retry budget
CollectPageOk_RestoreBudget ==
    /\ pc = "collect"
    /\ LET m == MaxResults(n_videos, Len(video_ids))
           ids == AppendItems(video_ids, PlaylistItems(next_page_token, m), n_videos)
           token == NextPageToken(next_page_token, m)
       IN /\ video_ids' = ids
          /\ next_page_token' = token
          /\ pc' = IF CollectionDone(n_videos, ids, token) THEN "collected"
                   ELSE "collect"
    /\ retries' = PageRetries
    /\ Observe("ok")
    /\ UNCHANGED <<playlistSize, n_videos, i, statistics, batch_retries, result,
                   batchAttempts, batchOutcome, emitCount, avars, svars>>

\* one iteration of the pagination loop whose request succeeds
CollectPageOk ==
    /\ pc = "collect"
    /\ LET m == MaxResults(n_videos, Len(video_ids))
           ids == AppendItems(video_ids, PlaylistItems(next_page_token, m), n_videos)
           token == NextPageToken(next_page_token, m)
       IN /\ video_ids' = ids
          /\ next_page_token' = token
          /\ pc' = IF CollectionDone(n_videos, ids, token) THEN "collected"
                   ELSE "collect"
    /\ Observe("ok")
    /\ UNCHANGED <<playlistSize, n_videos, retries, i, statistics,
                   batch_retries, result,
                   batchAttempts, batchOutcome, emitCount, avars, svars>>

\* variant of CollectSSLError: the retry starts over without the token
CollectSSLError_ResetToken ==
    /\ pc = "collect"
    /\ retries' = retries - 1
    /\ next_page_token' = None
    /\ Observe("ssl")
    /\ IF retries - 1 > 0
       THEN /\ pc' = "collect"
            /\ UNCHANGED <<result, emitCount>>
       ELSE Emit(ErrorResult("ssl", "collect"))
    /\ UNCHANGED <<playlistSize, n_videos, video_ids, i, statistics,
                   batch_retries, batchAttempts, batchOutcome, avars, svars>>

\* one iteration whose request raises ssl.SSLError
CollectSSLError ==
    /\ pc = "collect"
    /\ retries' = retries - 1
    /\ Observe("ssl")
    /\ IF retries - 1 > 0
       THEN /\ pc' = "collect"
            /\ UNCHANGED <<result, emitCount>>
       ELSE Emit(ErrorResult("ssl", "collect"))
    /\ UNCHANGED <<playlistSize, n_videos, video_ids, next_page_token, i,
                   statistics, batch_retries, batchAttempts, batchOutcome, avars, svars>>

\* variant of CollectOtherError: the error is retried like an SSL error
CollectOtherError_Retry ==
    /\ pc = "collect"
    /\ retries' = retries - 1
    /\ Observe("other")
    /\ IF retries - 1 > 0
       THEN /\ pc' = "collect"
            /\ UNCHANGED <<result, emitCount>>
       ELSE Emit(ErrorResult("other", "collect"))
    /\ UNCHANGED <<playlistSize, n_videos, video_ids, next_page_token, i,
                   statistics, batch_retries, batchAttempts, batchOutcome, avars, svars>>

\* one iteration whose request raises any other exception
CollectOtherError ==
    /\ pc = "collect"
    /\ Observe("other")
    /\ Emit(ErrorResult("other", "collect"))
    /\ UNCHANGED <<playlistSize, n_videos, video_ids, next_page_token, retries,
                   i, statistics, batch_retries, batchAttempts, batchOutcome,
                   avars, svars>>

\* ------------------------------------------------- get_videos_statistics
\* batch_ids = video_ids[i:i+50]
BatchIds(ids, k) == SubSeq(ids, k + 1, Min(k + BatchSize, Len(ids)))

\* run calls get_videos_statistics(youtube, video_ids); the locals of the
\* collection that returned, and their observation, are gone
GetVideosStatistics ==
    /\ pc = "collected"
    /\ pc' = "stats"
    /\ i' = 0
    /\ statistics' = <<>>
    /\ next_page_token' = None
    /\ retries' = PageRetries
    /\ lastReq' = NoReq
    /\ pageAttempts' = 0
    /\ pageRequests' = 0
    /\ UNCHANGED <<playlistSize, n_videos, video_ids, batch_retries, result,
                   batchAttempts, batchOutcome, emitCount, avars, svars>>

\* the for loop moves to the next batch
NextBatch(out) ==
    /\ i' = i + BatchSize
    /\ batchOutcome' = Append(batchOutcome, out)
    /\ pc' = "stats"

\* first request of a batch succeeds: its records are appended
StatsBatchOk ==
    /\ pc = "stats"
    /\ i < Len(video_ids)
    /\ statistics' = statistics \o VideoItems(BatchIds(video_ids, i))
    /\ batchAttempts' = 1
    /\ NextBatch("ok")
    /\ UNCHANGED <<playlistSize, n_videos, video_ids, next_page_token, retries,
                   batch_retries, result, lastReq, pageAttempts, pageRequests,
                   emitCount, avars, svars>>

\* variant of StatsBatchSSLError: the first failure uses up one retry
StatsBatchSSLError_CountFirst ==
    /\ pc = "stats"
    /\ i < Len(video_ids)
    /\ batch_retries' = BatchRetries - 1
    /\ batchAttempts' = 1
    /\ pc' = "stats_retry"
    /\ UNCHANGED <<playlistSize, n_videos, video_ids, next_page_token, retries,
                   i, statistics, result, lastReq, pageAttempts, pageRequests,
                   batchOutcome, emitCount, avars, svars>>

\* first request of a batch raises ssl.SSLError: enter the retry loop
StatsBatchSSLError ==
    /\ pc = "stats"
    /\ i < Len(video_ids)
    /\ batch_retries' = BatchRetries
    /\ batchAttempts' = 1
    /\ pc' = "stats_retry"
    /\ UNCHANGED <<playlistSize, n_videos, video_ids, next_page_token, retries,
                   i, statistics, result, lastReq, pageAttempts, pageRequests,
                   batchOutcome, emitCount, avars, svars>>

\* variant of StatsBatchOtherError: the exception is raised to the caller
StatsBatchOtherError_Raise ==
    /\ pc = "stats"
    /\ i < Len(video_ids)
    /\ batchAttempts' = 1
    /\ Emit(ErrorResult("other", "stats"))
    /\ UNCHANGED <<playlistSize, n_videos, video_ids, next_page_token, retries,
                   i, statistics, batch_retries, lastReq, pageAttempts,
                   pageRequests, batchOutcome, avars, svars>>

\* first request of a batch raises any other exception: continue
StatsBatchOtherError ==
    /\ pc = "stats"
    /\ i < Len(video_ids)
    /\ batchAttempts' = 1
    /\ NextBatch("skipped")
    /\ UNCHANGED <<playlistSize, n_videos, video_ids, next_page_token, retries,
                   statistics, batch_retries, result, lastReq, pageAttempts,
                   pageRequests, emitCount, avars, svars>>

\* one more request for the current batch (the observation saturates above
\* every count the retry loop can produce)
OneMoreAttempt == batchAttempts' = Min(batchAttempts + 1, BatchRetries + 2)

\* a retry succeeds: records appended, break
StatsRetryOk ==
    /\ pc = "stats_retry"
    /\ statistics' = statistics \o VideoItems(BatchIds(video_ids, i))
    /\ OneMoreAttempt
    /\ NextBatch("ok")
    /\ UNCHANGED <<playlistSize, n_videos, video_ids, next_page_token, retries,
                   batch_retries, result, lastReq, pageAttempts, pageRequests,
                   emitCount, avars, svars>>

\* variant of StatsRetrySSLError: at zero the countdown restarts
StatsRetrySSLError_Restart ==
    /\ pc = "stats_retry"
    /\ batch_retries' = IF batch_retries - 1 = 0 THEN BatchRetries
                         ELSE batch_retries - 1
    /\ OneMoreAttempt
    /\ UNCHANGED <<playlistSize, n_videos, pc, video_ids, next_page_token,
                   retries, i, statistics, result, lastReq, pageAttempts,
                   pageRequests, batchOutcome, emitCount, avars, svars>>

\* a retry raises ssl.SSLError: count down, raise at zero
StatsRetrySSLError ==
    /\ pc = "stats_retry"
    /\ batch_retries' = batch_retries - 1
    /\ OneMoreAttempt
    /\ IF batch_retries - 1 = 0
       THEN Emit(ErrorResult("ssl", "stats"))
       ELSE /\ pc' = "stats_retry"
            /\ UNCHANGED <<result, emitCount>>
    /\ UNCHANGED <<playlistSize, n_videos, video_ids, next_page_token, retries,
                   i, statistics, lastReq, pageAttempts, pageRequests,
                   batchOutcome, avars, svars>>

\* a retry raises any other exception: break out of the retry loop
StatsRetryOtherError ==
    /\ pc = "stats_retry"
    /\ OneMoreAttempt
    /\ NextBatch("skipped")
    /\ UNCHANGED <<playlistSize, n_videos, video_ids, next_page_token, retries,
                   statistics, batch_retries, result, lastReq, pageAttempts,
                   pageRequests, emitCount, avars, svars>>

\* the for loop is exhausted: return statistics, run emits the data
EmitData ==
    /\ pc = "stats"
    /\ ~(i < Len(video_ids))
    /\ Emit(DataResult(statistics))
    /\ UNCHANGED <<playlistSize, n_videos, video_ids, next_page_token, retries,
                   i, statistics, batch_retries, lastReq, pageAttempts,
                   pageRequests, batchAttempts, batchOutcome, avars, svars>>

\* run returns and the thread ends
ThreadEnd ==
    /\ pc = "emitted"
    /\ pc' = "ended"
    /\ UNCHANGED <<playlistSize, n_videos, video_ids, next_page_token, retries,
                   i, statistics, batch_retries, result, lastReq, pageAttempts,
                   pageRequests, batchAttempts, batchOutcome, emitCount, avars, svars>>

WorkerStep ==
    \/ ExtractChannelIdOk
    \/ ExtractChannelIdError
    \/ GetUploadsPlaylistIdOk
    \/ GetUploadsPlaylistIdError
    \/ CollectPageOk
    \/ CollectSSLError
    \/ CollectOtherError
    \/ GetVideosStatistics
    \/ StatsBatchOk
    \/ StatsBatchSSLError
    \/ StatsBatchOtherError
    \/ StatsRetryOk
    \/ StatsRetrySSLError
    \/ StatsRetryOtherError
    \/ EmitData
    \/ ThreadEnd

Next == WorkerStep

Spec == Init /\ [][Next]_vars

\* playlists and requested counts at the page boundaries
BoundaryInit ==
    /\ playlistSize \in {m \in 0..MaxVideos : m % PageSize \in {0, 1}}
    /\ n_videos \in {ALL} \cup {n \in 1..MaxN : n % PageSize \in {0, 1}}
    /\ WorkerFresh
    /\ AppIdle
    /\ SeriesIdle

\* the remote API answers every request and the thread is scheduled
FairSpec == BoundaryInit /\ [][Next]_vars /\ WF_vars(Next)

\* ---------------------------------------------------- YouTubeViewStatsApp
\* entries of the combo box offered to the user (str(i) for 50..1000, "All")
Selections == {"50", "100", "All"}

\* channel_input texts: empty, not a YouTube URL, a YouTube URL
Urls == {"", "invalid", "youtube"}

Workers == 1..MaxAnalyses

\* list.remove(worker): drops the first occurrence
RECURSIVE Remove(_, _)
Remove(list, w) ==
    IF list = <<>> THEN <<>>
    ELSE IF Head(list) = w THEN Tail(list)
    ELSE <<Head(list)>> \o Remove(Tail(list), w)

InList(list, w) == \E k \in 1..Len(list) : list[k] = w

\* the application window after __init__, no worker created yet
AppInit ==
    /\ playlistSize = 0
    /\ n_videos = ALL
    /\ WorkerFresh
    /\ AppIdle
    /\ SeriesIdle

\* analyze_channel with an empty or non-YouTube URL: warning, early return
AnalyzeRejected(url) ==
    /\ gui = "idle"
    /\ url # "youtube"
    /\ messageBox' = IF url = "" THEN "Input Required" ELSE "Invalid URL"
    /\ UNCHANGED <<threads, outcome, worker_threads, latest_df,
                   latest_channel_title, latest_n_videos, scroll_layout,
                   export_enabled, lastExport, eventQueue, before, gui, closeIdx,
                   wvars, svars>>

\* analyze_channel with a valid URL: clear, disable export, start a worker
AnalyzeChannel(w, selected_value) ==
    /\ gui = "idle"
    /\ threads[w] = "new"
    /\ \A v \in Workers : v < w => threads[v] # "new"
    /\ scroll_layout' = <<>>
    /\ export_enabled' = FALSE
    /\ latest_n_videos' = [run |-> w, text |-> selected_value]
    /\ worker_threads' = Append(worker_threads, w)
    /\ threads' = [threads EXCEPT ![w] = "running"]
    /\ before' = [before EXCEPT ![w] = Results]
    /\ UNCHANGED <<outcome, latest_df, latest_channel_title, messageBox,
                   lastExport, eventQueue, gui, closeIdx, wvars, svars>>

\* WorkerThread.run of worker w up to self.finished.emit: the signal is
\* queued for the GUI thread, the thread has not ended yet
WorkerRun(w, out) ==
    /\ threads[w] = "running"
    /\ threads' = [threads EXCEPT ![w] = "emitted"]
    /\ outcome' = [outcome EXCEPT ![w] = out]
    /\ eventQueue' = Append(eventQueue, w)
    /\ UNCHANGED <<worker_threads, latest_df, latest_channel_title,
                   latest_n_videos, scroll_layout, export_enabled, messageBox,
                   lastExport, before, gui, closeIdx, wvars, svars>>

\* run of worker w returns and its thread ends
WorkerEnd(w) ==
    /\ threads[w] = "emitted"
    /\ threads' = [threads EXCEPT ![w] = "ended"]
    /\ UNCHANGED <<outcome, worker_threads, latest_df, latest_channel_title,
                   latest_n_videos, scroll_layout, export_enabled, messageBox,
                   lastExport, eventQueue, before, gui, closeIdx,
                   wvars, svars>>

\* variant of HandleWorkerFinished: a failure also drops the stored table
HandleWorkerFinished_ClearOnError ==
    /\ gui = "idle"
    /\ eventQueue # <<>>
    /\ LET worker == Head(eventQueue)
       IN /\ eventQueue' = Tail(eventQueue)
          /\ worker_threads' = IF InList(worker_threads, worker)
                               THEN Remove(worker_threads, worker)
                               ELSE worker_threads
          /\ IF outcome[worker] = "error"
             THEN /\ messageBox' = "Error"
                  /\ latest_df' = None
                  /\ UNCHANGED <<latest_channel_title, scroll_layout,
                                 export_enabled>>
             ELSE IF outcome[worker] = "empty"
             THEN /\ latest_channel_title' = worker
                  /\ messageBox' = "No Data"
                  /\ UNCHANGED <<latest_df, scroll_layout, export_enabled>>
             ELSE /\ latest_channel_title' = worker
                  /\ latest_df' = worker
                  /\ scroll_layout' = Append(scroll_layout, worker)
                  /\ export_enabled' = TRUE
                  /\ UNCHANGED messageBox
    /\ UNCHANGED <<threads, outcome, latest_n_videos, lastExport, before,
                   gui, closeIdx, wvars, svars>>

\* handle_worker_finished for the oldest queued finished signal
HandleWorkerFinished ==
    /\ gui = "idle"
    /\ eventQueue # <<>>
    /\ LET worker == Head(eventQueue)
       IN /\ eventQueue' = Tail(eventQueue)
          /\ worker_threads' = IF InList(worker_threads, worker)
                               THEN Remove(worker_threads, worker)
                               ELSE worker_threads
          /\ IF outcome[worker] = "error"
             THEN /\ messageBox' = "Error"
                  /\ UNCHANGED <<latest_df, latest_channel_title,
                                 scroll_layout, export_enabled>>
             ELSE IF outcome[worker] = "empty"
             THEN /\ latest_channel_title' = worker
                  /\ messageBox' = "No Data"
                  /\ UNCHANGED <<latest_df, scroll_layout, export_enabled>>
             ELSE /\ latest_channel_title' = worker
                  /\ latest_df' = worker
                  /\ scroll_layout' = Append(scroll_layout, worker)
                  /\ export_enabled' = TRUE
                  /\ UNCHANGED messageBox
    /\ UNCHANGED <<threads, outcome, latest_n_videos, lastExport, before,
                   gui, closeIdx, wvars, svars>>

\* export_to_excel, reachable through the enabled Export button
ExportToExcel ==
    /\ gui = "idle"
    /\ export_enabled
    /\ IF latest_df = None \/ latest_channel_title = None
       THEN /\ messageBox' = "No Data"
            /\ UNCHANGED lastExport
       ELSE /\ lastExport' = [df |-> latest_df, title |-> latest_channel_title,
                              n |-> latest_n_videos.text]
            /\ messageBox' = "Export Successful"
    /\ UNCHANGED <<threads, outcome, worker_threads, latest_df,
                   latest_channel_title, latest_n_videos, scroll_layout,
                   export_enabled, eventQueue, before, gui, closeIdx, wvars, svars>>

\* closeEvent starts its loop over self.worker_threads
CloseEventBegin ==
    /\ gui = "idle"
    /\ gui' = "closing"
    /\ closeIdx' = 1
    /\ UNCHANGED <<threads, outcome, worker_threads, latest_df,
                   latest_channel_title, latest_n_videos, scroll_layout,
                   export_enabled, messageBox, lastExport, eventQueue, before,
                   wvars, svars>>

\* worker.quit(); worker.wait() returns once that thread has ended
CloseEventWait ==
    /\ gui = "closing"
    /\ closeIdx <= Len(worker_threads)
    /\ threads[worker_threads[closeIdx]] = "ended"
    /\ closeIdx' = closeIdx + 1
    /\ UNCHANGED <<threads, outcome, worker_threads, latest_df,
                   latest_channel_title, latest_n_videos, scroll_layout,
                   export_enabled, messageBox, lastExport, eventQueue, before,
                   gui, wvars, svars>>

\* event.accept() after the loop
CloseEventAccept ==
    /\ gui = "closing"
    /\ closeIdx > Len(worker_threads)
    /\ gui' = "closed"
    /\ UNCHANGED <<threads, outcome, worker_threads, latest_df,
                   latest_channel_title, latest_n_videos, scroll_layout,
                   export_enabled, messageBox, lastExport, eventQueue, before,
                   closeIdx, wvars, svars>>

AppNext ==
    \/ \E url \in Urls : AnalyzeRejected(url)
    \/ \E w \in Workers, sel \in Selections : AnalyzeChannel(w, sel)
    \/ \E w \in Workers, out \in {"error", "empty", "data"} : WorkerRun(w, out)
    \/ \E w \in Workers : WorkerEnd(w)
    \/ HandleWorkerFinished
    \/ ExportToExcel
    \/ CloseEventBegin
    \/ CloseEventWait
    \/ CloseEventAccept

AppSpec == AppInit /\ [][AppNext]_vars

\* worker threads are scheduled and the GUI event loop keeps running
FairAppSpec == AppSpec /\ WF_vars(\E w \in Workers : WorkerEnd(w))

\* ------------------------------------- series of handle_worker_finished
\* an upload date is the instant pd.to_datetime / tz_convert(None) yields,
\* counted in whole time units; publishedAt always carries the UTC offset
Max(a, b) == IF a > b THEN a ELSE b

\* the list of records get_videos_statistics returns: n records in list
\* order, view counts stepping by a, dates falling (API order) or rising,
\* the records t..t+g-1 sharing one upload date (t = 0: no shared date)
StatsList(n, a, rising, t, g) ==
    [k \in 1..n |->
        LET d == IF t > 0 /\ k \in t..(t + g - 1) THEN t ELSE k
        IN [video_id |-> k,
            view_count |-> (a * k) % (MaxStep + 2),
            upload_date |-> IF rising THEN d ELSE n + 1 - d]]

\* df.sort_values('upload_date') with the default kind='quicksort', which
\* is not stable: every arrangement by non-decreasing upload date
RECURSIVE SortedArrangements(_)
SortedArrangements(rows) ==
    IF rows = {} THEN {<<>>}
    ELSE LET first == {r \in rows :
                         \A q \in rows : r.upload_date <= q.upload_date}
         IN UNION {{<<r>> \o rest : rest \in SortedArrangements(rows \ {r})}
                     : r \in first}

SortValues(list) == SortedArrangements({list[k] : k \in 1..Len(list)})

\* window_size = max(1, len(df) // 10)
WindowSize(len) == Max(1, len \div WindowDivisor)

\* NaN of the moving_avg column; a mean is the pair <<sum, count>>
NaN == <<>>

\* variant of RollingMean: a value as soon as one observation is in
RECURSIVE RollingMean_MinPeriodsOne(_, _, _, _, _)
RollingMean_MinPeriodsOne(vals, w, k, sum, nobs) ==
    IF k > Len(vals) THEN <<>>
    ELSE LET sum1 == sum + vals[k] - (IF k > w THEN vals[k - w] ELSE 0)
             nobs1 == IF k > w THEN nobs ELSE nobs + 1
         IN <<IF nobs1 >= 1 THEN <<sum1, nobs1>> ELSE NaN>>
              \o RollingMean_MinPeriodsOne(vals, w, k + 1, sum1, nobs1)

\* rolling(window=w).mean(): a sliding sum that adds the entering value and
\* removes the leaving one; a value only once w observations are in
RECURSIVE RollingMean(_, _, _, _, _)
RollingMean(vals, w, k, sum, nobs) ==
    IF k > Len(vals) THEN <<>>
    ELSE LET sum1 == sum + vals[k] - (IF k > w THEN vals[k - w] ELSE 0)
             nobs1 == IF k > w THEN nobs ELSE nobs + 1
         IN <<IF nobs1 >= w THEN <<sum1, nobs1>> ELSE NaN>>
              \o RollingMean(vals, w, k + 1, sum1, nobs1)

\* df['moving_avg'] = df['view_count'].rolling(window=window_size).mean()
WithMovingAvg(sorted) ==
    LET avg == RollingMean([k \in 1..Len(sorted) |-> sorted[k].view_count],
                           WindowSize(Len(sorted)), 1, 0, 0)
    IN [k \in 1..Len(sorted) |->
          [video_id |-> sorted[k].video_id,
           view_count |-> sorted[k].view_count,
           upload_date |-> sorted[k].upload_date,
           moving_avg |-> avg[k]]]

\* the records under the rows of a DataFrame
Records(frame) ==
    [k \in 1..Len(frame) |->
        [video_id |-> frame[k].video_id,
         view_count |-> frame[k].view_count,
         upload_date |-> frame[k].upload_date]]

\* every DataFrame lines 556-570 can produce from a list of records
Series(list) == {WithMovingAvg(sorted) : sorted \in SortValues(list)}

\* a finished signal with a non-empty video_stats list is being handled
SeriesInit ==
    /\ playlistSize = 0
    /\ n_videos = ALL
    /\ WorkerFresh
    /\ AppIdle
    /\ \E n \in 1..MaxRecords, a \in 0..MaxStep, rising \in BOOLEAN,
          t \in 0..MaxRecords, g \in 2..MaxTie :
          /\ t + g - 1 <= n
          /\ video_stats = StatsList(n, a, rising, t, g)
    /\ df = <<>>
    /\ rebuilt = <<>>
    /\ sphase = "stats"

\* handle_worker_finished builds the sorted DataFrame with its moving average
BuildSeries ==
    /\ sphase = "stats"
    /\ df' \in Series(video_stats)
    /\ sphase' = "built"
    /\ UNCHANGED <<video_stats, rebuilt, wvars, avars>>

\* the records of the DataFrame are put through the same lines once more
RebuildSeries ==
    /\ sphase = "built"
    /\ rebuilt' \in Series(Records(df))
    /\ sphase' = "rebuilt"
    /\ UNCHANGED <<video_stats, df, wvars, avars>>

SeriesNext ==
    \/ BuildSeries
    \/ RebuildSeries

SeriesSpec == SeriesInit /\ [][SeriesNext]_vars

\* ================================================================ claims
\* the first K IDs of the playlist in API order
ExpectedIds(n, m) == [k \in 1..(IF n = ALL THEN m ELSE Min(n, m)) |-> k]

\* the pagination call ended by raising the secure-transport error
CollectionFailedSSL ==
    result.kind = "error" /\ result.stage = "collect" /\ result.reason = "ssl"

\* C1: the collection fails with the transport error only after the failed
\* page request has been re-issued 3 times, i.e. after 1 + 3 requests of
\* that page have failed.
C1_ThreeRetriesBeforeFailure ==
    CollectionFailedSSL => pageAttempts = 1 + PageRetries

\* C2: without remote errors the collection returns exactly the first K IDs
\* of the playlist in API order, K = M in "all" mode and min(N, M) in
\* last-N mode.
C2_ReturnsFirstK ==
    (pc = "collected" /\ retries = PageRetries)
        => video_ids = ExpectedIds(n_videos, playlistSize)

\* a last-N collection over several pages that stops inside the playlist
C2_Witness ==
    /\ pc = "collected"
    /\ retries = PageRetries
    /\ n_videos # ALL
    /\ n_videos > PageSize
    /\ n_videos < playlistSize
    /\ Len(video_ids) = n_videos

\* C3: a page request retried after a secure-transport error carries the
\* token of the failed request and finds the collected IDs unchanged, and a
\* collection that returns after such retries returns the error-free list.
C3_RetrySamePage ==
    /\ [][(lastReq.outcome = "ssl" /\ pageRequests' = pageRequests + 1)
            => (lastReq'.token = lastReq.token /\ lastReq'.ids = lastReq.ids)]_vars
    /\ []((pc = "collect" /\ lastReq.outcome = "ssl")
            => (next_page_token = lastReq.token /\ video_ids = lastReq.ids))
    /\ []((pc = "collected" /\ retries < PageRetries)
            => video_ids = ExpectedIds(n_videos, playlistSize))

\* the request of a later page failed, was retried and succeeded
C3_Witness ==
    /\ pc = "collected"
    /\ retries < PageRetries
    /\ lastReq.outcome = "ok"
    /\ lastReq.token # None
    /\ pageAttempts > 1
    /\ Len(video_ids) > PageSize

\* C4: every batch gets a fresh budget of 3 retries, and the aggregation
\* aborts with the SSL error only after the batch's first request and its 3
\* retries have failed; the caller then receives no records.
C4_BatchRetryBudget ==
    /\ pc = "stats_retry"
         => /\ batchAttempts \in 1..BatchRetries
            /\ batch_retries = BatchRetries - (batchAttempts - 1)
    /\ (result.kind = "error" /\ result.stage = "stats")
         => /\ result.reason = "ssl"
            /\ batchAttempts = 1 + BatchRetries
            /\ result.video_stats = <<>>

\* a later batch exhausts its retries after an earlier batch had succeeded
C4_Witness ==
    /\ result.kind = "error"
    /\ result.stage = "stats"
    /\ i > 0
    /\ statistics # <<>>

\* number of batches of a list of len IDs
NumBatches(len) == (len + BatchSize - 1) \div BatchSize

\* the records of the batches that succeeded, in batch order
RECURSIVE KeptRecords(_, _, _)
KeptRecords(ids, outs, k) ==
    IF k > Len(outs) THEN <<>>
    ELSE (IF outs[k] = "ok" THEN VideoItems(BatchIds(ids, (k - 1) * BatchSize))
          ELSE <<>>) \o KeptRecords(ids, outs, k + 1)

C6_AtMostOneRunning ==
    Cardinality({w \in Workers : threads[w] = "running"}) <= 1

\* C7: whenever export is enabled, table, title and requested count come
\* from the same Analyze invocation and exactly its chart is displayed.
C7_ResultsOfOneRun ==
    export_enabled
        => /\ latest_df # None
           /\ latest_channel_title = latest_df
           /\ latest_n_videos.run = latest_df
           /\ scroll_layout = <<latest_df>>

\* handle_worker_finished takes the failure report of the oldest signal
FailureReported ==
    /\ gui = "idle"
    /\ eventQueue # <<>>
    /\ eventQueue' = Tail(eventQueue)
    /\ outcome[Head(eventQueue)] = "error"

\* analyze_channel starts worker w
AnalyzeStarts(w) == threads[w] = "new" /\ threads'[w] = "running"

\* C8 as stated: after a failure is reported, the results of an earlier
\* successful analysis are what they were before the failed Analyze began.
C8_PriorResultsUntouched ==
    [][(FailureReported /\ before[Head(eventQueue)].export)
         => Results' = before[Head(eventQueue)]]_vars

\* C8 amended: reporting a failure changes none of the stored results, and
\* the Analyze invocation keeps table and title but clears the charts,
\* disables export and overwrites the requested count.
C8_FailureKeepsTableAndTitle ==
    /\ [][FailureReported => Results' = Results]_vars
    /\ [][\A w \in Workers : AnalyzeStarts(w)
            => /\ latest_df' = latest_df
               /\ latest_channel_title' = latest_channel_title
               /\ scroll_layout' = <<>>
               /\ ~export_enabled'
               /\ latest_n_videos'.run = w]_vars

\* a failure has been reported after an earlier analysis had succeeded
C8_Witness ==
    /\ messageBox = "Error"
    /\ latest_df # None
    /\ latest_channel_title = latest_df
    /\ latest_n_videos.run # latest_df
    /\ scroll_layout = <<>>
    /\ ~export_enabled
    /\ eventQueue = <<>>
    /\ \A w \in Workers : threads[w] # "running"

\* C9: when closeEvent runs every unfinished thread is in worker_threads,
\* and no thread is still running once the close is accepted.
C9_CloseWaitsForAll ==
    /\ gui \in {"closing", "closed"}
         => \A w \in Workers : threads[w] \in {"running", "emitted"}
                                  => InList(worker_threads, w)
    /\ gui = "closed"
         => \A w \in Workers : threads[w] \in {"new", "ended"}

\* C10: a started WorkerThread emits exactly one finished result, data or
\* error, and then ends.
C10_RunCompletes ==
    /\ [](emitCount <= 1)
    /\ [](pc \in {"emitted", "ended"}
            => emitCount = 1 /\ result.kind \in {"data", "error"})
    /\ <>(pc = "ended")

\* a run over several pages and batches that ended after retries
C10_Witness ==
    /\ pc = "ended"
    /\ emitCount = 1
    /\ result.kind = "data"
    /\ Len(batchOutcome) = 3
    /\ batchAttempts > 1

\* the pagination call ended by raising an error that is not an SSL error
CollectionFailedOther ==
    result.kind = "error" /\ result.stage = "collect" /\ result.reason = "other"

\* C14: a non-SSL error during pagination is fatal at once: the request is
\* not re-issued, no further page is requested, no retry is consumed, the
\* run emits the error without any ID list and issues no statistics request.
C14_OtherErrorFatal ==
    /\ [][(pageRequests' = pageRequests + 1 /\ lastReq'.outcome = "other")
            => /\ retries' = retries
               /\ pc' = "emitted"
               /\ result' = ErrorResult("other", "collect")]_vars
    /\ [][CollectionFailedOther
            => /\ pageRequests' = pageRequests
               /\ lastReq' = lastReq
               /\ batchAttempts' = 0]_vars
    /\ [](CollectionFailedOther
            => /\ pc \in {"emitted", "ended"}
               /\ lastReq.outcome = "other"
               /\ result.video_stats = <<>>
               /\ statistics = <<>>
               /\ batchAttempts = 0
               /\ batchOutcome = <<>>)

\* a later page fails with a non-SSL error after an SSL error was retried
C14_Witness ==
    /\ CollectionFailedOther
    /\ pc = "ended"
    /\ video_ids # <<>>
    /\ retries = PageRetries - 1
    /\ pageAttempts = 1

\* pages fetched so far by a collection holding len IDs that is still
\* looping or has failed: each of them was a full page
FullPages(len) == len \div PageSize

\* pages fetched by a collection that returned len IDs: the last page may
\* be short, and an empty playlist still costs one request
PagesFetched(len) == IF len = 0 THEN 1 ELSE (len + PageSize - 1) \div PageSize

\* C15: one retry counter per collection call, never restored: at most two
\* SSL failures are retried, the third ends the call on whatever page it
\* occurs, and a call that fetches P pages issues at most P + 2 requests.
C15_BudgetPerCall ==
    /\ [][pc = "collect" => retries' <= retries]_vars
    /\ [](pc = "collect"
            => /\ retries \in 1..PageRetries
               /\ pageRequests = FullPages(Len(video_ids)) + (PageRetries - retries))
    /\ [](pc = "collected"
            => /\ retries \in 1..PageRetries
               /\ pageRequests
                    = PagesFetched(Len(video_ids)) + (PageRetries - retries)
               /\ pageRequests <= PagesFetched(Len(video_ids)) + 2)
    /\ [](CollectionFailedSSL
            => /\ retries = 0
               /\ pageRequests = FullPages(Len(video_ids)) + PageRetries)

\* the third SSL error of the call hits the first request of the third page
C15_Witness ==
    /\ CollectionFailedSSL
    /\ Len(video_ids) = 2 * PageSize
    /\ pageAttempts = 1
    /\ pageRequests = 5

\* sum of view_count over the rows from..to of a DataFrame
RECURSIVE ViewSum(_, _, _)
ViewSum(frame, from, to) ==
    IF from > to THEN 0
    ELSE frame[to].view_count + ViewSum(frame, from, to - 1)

\* C11: with window w = max(1, count // 10), the moving average of row k
\* (counted from 1) is the mean of view_count over rows k-w+1..k when
\* k >= w, and absent when k < w.
C11_MovingAverage ==
    sphase \in {"built", "rebuilt"}
        => LET w == WindowSize(Len(df))
           IN \A k \in 1..Len(df) :
                df[k].moving_avg
                    = IF k >= w THEN <<ViewSum(df, k - w + 1, k), w>> ELSE NaN

\* a series with a window of 3: absent averages first, then a mean that
\* differs from the row's own view count
C11_Witness ==
    /\ sphase = "built"
    /\ WindowSize(Len(df)) = 3
    /\ df[1].moving_avg = NaN
    /\ df[2].moving_avg = NaN
    /\ \E k \in 3..Len(df) :
          /\ df[k].moving_avg # NaN
          /\ df[k].moving_avg[1] # 3 * df[k].view_count

\* position of a record in the list handed to the handler
InputIndex(id) == CHOOSE k \in 1..Len(video_stats) : video_stats[k].video_id = id

\* C12: the DataFrame is a permutation of the input with non-decreasing
\* upload dates in which records of equal upload date keep their input order.
C12_StableSort ==
    sphase \in {"built", "rebuilt"}
        => /\ Len(df) = Len(video_stats)
           /\ \A k \in 1..Len(video_stats) :
                 \E j \in 1..Len(df) : Records(df)[j] = video_stats[k]
           /\ \A j \in 1..(Len(df) - 1) :
                 /\ df[j].upload_date <= df[j + 1].upload_date
                 /\ df[j].upload_date = df[j + 1].upload_date
                      => InputIndex(df[j].video_id) < InputIndex(df[j + 1].video_id)

\* C13: building the series again from the records of its own output gives
\* the same row order and the same moving averages.
C13_Idempotent ==
    sphase = "rebuilt" => rebuilt = df

TypeOK == pc \in {"extract", "uploads", "collect", "collected", "stats", "stats_retry",
                  "emitted", "ended"}
====
